---------------------------- MODULE Spec2Model ----------------------------
(***************************************************************************)
(* State-machine model of the qmlglsink example player (src/main.cpp and   *)
(* src/ScopeGuard.hpp): the signal bridge (Sighandler, sigHandler), the    *)
(* playbin pipeline controller (Pipeline), the deferred start job          *)
(* (SetPlayingJob) and the startup / teardown sequence of main.            *)
(*                                                                         *)
(* The main thread is one process with a program counter pc.  A signal     *)
(* whose disposition is sigHandler interrupts the main thread: while the   *)
(* handler runs (hpc = "running") the main thread takes no step, and the   *)
(* handler itself is not interrupted (sa_mask is filled).  The render job  *)
(* runs on the render thread of the shown window.                          *)
(***************************************************************************)
EXTENDS Integers, Sequences, FiniteSets, TLC

\* ------------------------------------------------------------------------
\* Bounds of the model
\* ------------------------------------------------------------------------

\* Largest number of undrained bytes kept in the signal pipe.
MaxPending == 2

\* Largest number of ScopeGuardImpl objects one guard passes through by moves.
MaxGuardObjects == 3

\* Largest number of dismiss() calls on one ScopeGuardImpl object.
MaxDismissCalls == 2

\* Largest number of subtitle samples delivered to the callback.
MaxSamples == 3

\* Largest number of direct calls of Pipeline::start.
MaxStartCalls == 2

\* ------------------------------------------------------------------------
\* Program constants
\* ------------------------------------------------------------------------

\* The inactive value of signalFd and of the two m_pipeFds entries.
NoFd == -1

\* The status main returns on every error path.
ErrorStatus == -1

Signals == {"SIGINT", "SIGTERM", "SIGQUIT", "SIGHUP"}

SignalsToHandle == <<"SIGINT", "SIGTERM", "SIGQUIT", "SIGHUP">>

\* Signal numbers: the key order of the std::map m_oldSigactions.
SigNum(s) ==
    CASE s = "SIGHUP" -> 1
      [] s = "SIGINT" -> 2
      [] s = "SIGQUIT" -> 3
      [] s = "SIGTERM" -> 15

\* Dispositions a managed signal can have when the program starts, and the
\* one the bridge installs.
OldDispositions == {"SIG_DFL", "SIG_IGN", "other"}
Dispositions == OldDispositions \cup {"sigHandler"}

\* Marks a signal that has no entry in m_oldSigactions.
Absent == "absent"

Elements == {"playbin", "glsinkbin", "appsink", "qmlglsink"}
Null == "null"

\* Command line inputs: a valid URI, an absolute file name, and a name that
\* is neither a URI nor convertible.
Inputs == {"http://example.com/v.mp4", "/tmp/video.mp4", "\\bad"}

\* Mutant of MainObjects: the guard is the last object constructed.
MainObjects_GuardLast == <<"app", "sighandler", "qml_engine", "pipeline", "guard">>

\* Objects of main's scope, in order of construction.
MainObjects == <<"guard", "app", "sighandler", "qml_engine", "pipeline">>

VARIABLES
    pc,              \* position of the main thread
    ret,             \* <<status>> returned by main, << >> before the return
    failure,         \* the setup failure that made main return, or "none"
    alive,           \* objects of main's scope constructed and not destroyed
    gst,             \* media library: "uninit", "init", "deinit"
    deinitCount,     \* number of gst_deinit calls
    inputUrl,        \* QString inputUrl
    runInFullscreen, \* bool runInFullscreen
    window,          \* root window: "none","loaded","shown","closed","destroyed"
    hasVideoItem,    \* the QML document has a child named "videoItem"
    job,             \* SetPlayingJob: "none", "pending", "done"
    quitRequested,   \* the event loop was asked to return
    execEntered,     \* app.exec() was called
    closedBy,        \* who requested closing of the window
    \* Pipeline
    m_playbin, m_qmlglsink, glsinkbin, subtitleAppsink,
    pipelineGuard, elementUnrefGuard,
    elem,            \* element -> "none", "held", "adopted", "freed"
    parent,          \* element -> owning parent element, or Null
    unrefs,          \* element -> number of gst_object_unref by the controller
    unrefLog,        \* element states seen by the controller's unref calls
    constructed,     \* elements in order of construction
    setupResult,     \* Pipeline::setup: "none", "true", "false"
    widget,          \* qmlglsink "widget" property
    playState,       \* state requested for playbin
    startCalls,      \* number of Pipeline::start calls
    startLog,        \* what each Pipeline::start call saw
    teardownLog,     \* steps performed by Pipeline::~Pipeline
    \* Sighandler
    signalFd, m_pipeFds, m_notifier, m_oldSigactions,
    openFds,         \* file descriptors that are open
    pipeBytes,       \* bytes written to the pipe and not read
    disp,            \* signal -> disposition in effect
    initDisp,        \* signal -> disposition when the program started
    sigIdx,          \* index of Sighandler::setup's loop over SignalsToHandle
    shSetupResult,   \* Sighandler::setup: "none", "true", "false"
    restoreLeft,     \* entries ~Sighandler's loop has not visited yet
    restored,        \* signals whose disposition ~Sighandler wrote
    installed,       \* signals on which setup installed sigHandler
    hpc,             \* signal handler: "idle", "running"
    writes,          \* targets of the handler's write calls
    \* History and the parts exercised on their own
    inputArg,        \* the value of the input option as given
    guards,          \* ScopeGuardImpl objects of one scope guard's life
    sub,             \* the new-subtitle callback and its resources
    ndebug,          \* the build defines NDEBUG: assert expands to nothing
    aborted          \* a failed assert has aborted the process

mainVars == <<pc, ret, failure, alive, gst, deinitCount, inputUrl, runInFullscreen,
              window, hasVideoItem, job, quitRequested, execEntered, closedBy>>
pipeVars == <<m_playbin, m_qmlglsink, glsinkbin, subtitleAppsink,
              pipelineGuard, elementUnrefGuard, elem, parent, unrefs, unrefLog,
              constructed, setupResult, widget, playState, startCalls, startLog,
              teardownLog>>
sigVars == <<signalFd, m_pipeFds, m_notifier, m_oldSigactions, openFds,
             pipeBytes, disp, initDisp, sigIdx, shSetupResult, restoreLeft,
             restored, installed, hpc, writes>>
auxVars == <<inputArg, guards, sub, ndebug, aborted>>
vars == <<mainVars, pipeVars, sigVars, auxVars>>

\* ------------------------------------------------------------------------
\* ScopeGuard.hpp
\* ------------------------------------------------------------------------

\* ScopeGuardImpl(Func &&): a guard holding an action, not dismissed.
ScopeGuardImpl == [m_dismissed |-> FALSE]

\* Mutant of dismiss: the flag is not set.
dismiss_Forgets(g) == g

\* dismiss()
dismiss(g) == [g EXCEPT !.m_dismissed = TRUE]

\* Mutant of GuardFires: the destructor runs the action whatever the flag.
GuardFires_Always(g) == TRUE

\* ~ScopeGuardImpl(): does the action run?
GuardFires(g) == ~g.m_dismissed

\* A guard that does not exist (outside its scope).
NoGuard == [m_dismissed |-> TRUE]

\* ScopeGuardImpl(ScopeGuardImpl &&other): the new guard takes the flag of
\* the other one.
MoveConstructed(other) == [m_dismissed |-> other.m_dismissed]

\* Mutant of MovedFrom: the other guard is left as it was.
MovedFrom_Untouched(other) == other

\* ScopeGuardImpl(ScopeGuardImpl &&other): other.m_dismissed = true.
MovedFrom(other) == [other EXCEPT !.m_dismissed = TRUE]

GuardObjects == 1..MaxGuardObjects

\* A ScopeGuardImpl object that is not constructed yet.  m_func is
\* "action", or "empty" once moved from; the other fields are the history
\* of the object: the dismiss() calls on it, the runs of the action by its
\* destructor, whether it was moved from, and for a move-constructed object
\* the flag the other object had.
NoObject ==
    [status |-> "none", m_func |-> "empty", g |-> NoGuard, dismissCalls |-> 0,
     ran |-> 0, emptyCalls |-> 0, movedFrom |-> FALSE, born |-> "none",
     otherFlag |-> FALSE]

\* ------------------------------------------------------------------------
\* Init
\* ------------------------------------------------------------------------

MainInit ==
    /\ pc = "gst_init"
    /\ ret = << >>
    /\ failure = "none"
    /\ alive = {}
    /\ gst = "uninit"
    /\ deinitCount = 0
    /\ inputUrl = ""
    /\ runInFullscreen = FALSE
    /\ window = "none"
    /\ hasVideoItem = FALSE
    /\ job = "none"
    /\ quitRequested = FALSE
    /\ execEntered = FALSE
    /\ closedBy = {}
    /\ m_playbin = Null
    /\ m_qmlglsink = Null
    /\ glsinkbin = Null
    /\ subtitleAppsink = Null
    /\ pipelineGuard = NoGuard
    /\ elementUnrefGuard = NoGuard
    /\ elem = [e \in Elements |-> "none"]
    /\ parent = [e \in Elements |-> Null]
    /\ unrefs = [e \in Elements |-> 0]
    /\ unrefLog = {}
    /\ constructed = <<>>
    /\ setupResult = "none"
    /\ widget = Null
    /\ playState = "none"
    /\ startCalls = 0
    /\ startLog = {}
    /\ teardownLog = <<>>
    /\ signalFd = NoFd
    /\ m_pipeFds = <<NoFd, NoFd>>
    /\ m_notifier = FALSE
    /\ m_oldSigactions = [s \in Signals |-> Absent]
    /\ openFds = {}
    /\ pipeBytes = 0
    /\ initDisp \in [Signals -> OldDispositions]
    /\ disp = initDisp
    /\ sigIdx = 1
    /\ shSetupResult = "none"
    /\ restoreLeft = {}
    /\ restored = {}
    /\ installed = {}
    /\ hpc = "idle"
    /\ writes = {}

\* The callback is not running and no sample was delivered.
SubIdle ==
    [pc |-> "idle", delivered |-> 0, subtitleSample |-> Null, pulled |-> 0,
     sampleUnrefs |-> 0, mapped |-> 0, unmapped |-> 0, guard |-> NoGuard,
     payload |-> "", subtitle |-> ""]

AuxInit ==
    /\ inputArg = ""
    /\ guards = [i \in GuardObjects |-> NoObject]
    /\ sub = SubIdle
    /\ ndebug = FALSE
    /\ aborted = FALSE

\* main never reaches an assert that fails, so the build is fixed here.
Init == MainInit /\ AuxInit


\* ------------------------------------------------------------------------
\* External library functions, by their documented results
\* ------------------------------------------------------------------------

\* gst_uri_is_valid: the string starts with a URI scheme.
gst_uri_is_valid(s) == s \in {"http://example.com/v.mp4", "file:///tmp/video.mp4"}

\* Mutant of gst_filename_to_uri: every name is returned as it is.
gst_filename_to_uri_Identity(s) == s

\* gst_filename_to_uri: the file URI of a file name, or Null.
gst_filename_to_uri(s) == IF s = "/tmp/video.mp4" THEN "file://" \o s ELSE Null

\* ------------------------------------------------------------------------
\* Element store: release of elements
\* ------------------------------------------------------------------------

Children(par, e) == {c \in Elements : par[c] = e}

Descendants(par, e) ==
    Children(par, e) \cup UNION {Children(par, c) : c \in Children(par, e)}

\* gst_object_unref(h) called by the controller on handle h.  The element
\* is freed, and with it everything it owns.  The log keeps the state the
\* element was in when the controller released it.
Unref(st, h) ==
    IF h = Null THEN st
    ELSE [st EXCEPT
            !.elem = [x \in Elements |->
                        IF x = h \/ x \in Descendants(st.parent, h)
                        THEN "freed" ELSE st.elem[x]],
            !.unrefs = [st.unrefs EXCEPT ![h] = @ + 1],
            !.log = @ \cup {<<h, st.elem[h]>>}]

\* Body of the pipelineGuard lambda: handle hp is m_playbin.
PipelineGuardAction(st, hp) == Unref(st, hp)

\* Mutant of the elementUnrefGuard lambda: the appsink is not released.
ElementUnrefGuardAction_LeaksAppsink(st, hg, ha) == Unref(st, hg)

\* Body of the elementUnrefGuard lambda: hg is glsinkbin, ha is
\* subtitleAppsink.
ElementUnrefGuardAction(st, hg, ha) == Unref(Unref(st, hg), ha)

\* ------------------------------------------------------------------------
\* main, up to the construction of the pipeline
\* ------------------------------------------------------------------------

\* return code; from main, after the failure why ("none" for the return of
\* app.exec()): the objects of main's scope are destroyed next.
ReturnFromMain(code, why) ==
    /\ ret' = <<code>>
    /\ failure' = why
    /\ pc' = "unwind"

\* gst_init_check
GstInit ==
    /\ pc = "gst_init"
    /\ UNCHANGED auxVars
    /\ hpc = "idle"
    /\ \E ok \in BOOLEAN :
         IF ok
         THEN /\ gst' = "init"
              /\ pc' = "construct"
              /\ ret' = ret
              /\ failure' = failure
         ELSE /\ gst' = gst
              /\ ReturnFromMain(ErrorStatus, "gst_init")
    /\ UNCHANGED <<alive, deinitCount, inputUrl, runInFullscreen, window,
                   hasVideoItem, job, quitRequested, execEntered, closedBy>>
    /\ UNCHANGED <<pipeVars, sigVars>>

\* The gst_deinit guard, QGuiApplication app and Sighandler sighandler.
Construct ==
    /\ pc = "construct"
    /\ UNCHANGED auxVars
    /\ hpc = "idle"
    /\ alive' = {"guard", "app", "sighandler"}
    /\ pc' = "parse"
    /\ UNCHANGED <<ret, failure, gst, deinitCount, inputUrl, runInFullscreen, window,
                   hasVideoItem, job, quitRequested, execEntered, closedBy>>
    /\ UNCHANGED <<pipeVars, sigVars>>

\* Command line parsing.
ParseCmdline ==
    /\ pc = "parse"
    /\ UNCHANGED <<guards, sub, ndebug, aborted>>
    /\ hpc = "idle"
    /\ \E outcome \in {"parseError", "help", "noInput", "ok"} :
         IF outcome = "ok"
         THEN /\ \E url \in Inputs : inputUrl' = url /\ inputArg' = url
              /\ \E f \in BOOLEAN : runInFullscreen' = f
              /\ pc' = "normalize"
              /\ ret' = ret
              /\ failure' = failure
         ELSE /\ ReturnFromMain(ErrorStatus, outcome)
              /\ UNCHANGED <<inputUrl, runInFullscreen, inputArg>>
    /\ UNCHANGED <<alive, gst, deinitCount, window, hasVideoItem, job,
                   quitRequested, execEntered, closedBy>>
    /\ UNCHANGED <<pipeVars, sigVars>>

\* Input validation and conversion to a file URI.
NormalizeInput ==
    /\ pc = "normalize"
    /\ UNCHANGED auxVars
    /\ hpc = "idle"
    /\ IF gst_uri_is_valid(inputUrl)
       THEN /\ pc' = "dummy"
            /\ UNCHANGED <<inputUrl, ret, failure>>
       ELSE LET uri == gst_filename_to_uri(inputUrl) IN
            IF uri # Null
            THEN /\ inputUrl' = uri
                 /\ pc' = "dummy"
                 /\ ret' = ret
                 /\ failure' = failure
            ELSE /\ ReturnFromMain(ErrorStatus, "input")
                 /\ inputUrl' = inputUrl
    /\ UNCHANGED <<alive, gst, deinitCount, runInFullscreen, window,
                   hasVideoItem, job, quitRequested, execEntered, closedBy>>
    /\ UNCHANGED <<pipeVars, sigVars>>

\* The dummy qmlglsink: created and released at once, or missing.
DummySink ==
    /\ pc = "dummy"
    /\ UNCHANGED auxVars
    /\ hpc = "idle"
    /\ \E ok \in BOOLEAN :
         IF ok
         THEN pc' = "load_qml" /\ ret' = ret /\ failure' = failure
         ELSE ReturnFromMain(ErrorStatus, "plugin")
    /\ UNCHANGED <<alive, gst, deinitCount, inputUrl, runInFullscreen, window,
                   hasVideoItem, job, quitRequested, execEntered, closedBy>>
    /\ UNCHANGED <<pipeVars, sigVars>>

\* QQmlApplicationEngine qml_engine; load; rootObjects; Pipeline pipeline.
LoadQml ==
    /\ pc = "load_qml"
    /\ UNCHANGED auxVars
    /\ hpc = "idle"
    /\ \E root \in BOOLEAN, item \in BOOLEAN :
         IF root
         THEN /\ window' = "loaded"
              /\ hasVideoItem' = item
              /\ alive' = alive \cup {"qml_engine", "pipeline"}
              /\ pc' = "ps_begin"
              /\ ret' = ret
              /\ failure' = failure
         ELSE /\ alive' = alive \cup {"qml_engine"}
              /\ ReturnFromMain(ErrorStatus, "qml")
              /\ UNCHANGED <<window, hasVideoItem>>
    /\ UNCHANGED <<gst, deinitCount, inputUrl, runInFullscreen, job,
                   quitRequested, execEntered, closedBy>>
    /\ UNCHANGED <<pipeVars, sigVars>>

\* ------------------------------------------------------------------------
\* Pipeline::setup
\* ------------------------------------------------------------------------

Store == [elem |-> elem, parent |-> parent, unrefs |-> unrefs, log |-> unrefLog]

\* gst_element_factory_make: a new element held by the caller.
\* Mutant of NextElementStep: no subtitle sink is made.
NextElementStep_NoSubtitleSink(e) ==
    CASE e = "playbin" -> "ps_glsinkbin"
      [] e = "glsinkbin" -> "ps_qmlglsink"
      [] e = "appsink" -> "ps_qmlglsink"

\* The step of Pipeline::setup that follows the construction of element e.
NextElementStep(e) ==
    CASE e = "playbin" -> "ps_glsinkbin"
      [] e = "glsinkbin" -> "ps_appsink"
      [] e = "appsink" -> "ps_qmlglsink"

FactoryMake(e) ==
    /\ elem' = [elem EXCEPT ![e] = "held"]
    /\ constructed' = Append(constructed, e)

\* Leaving Pipeline::setup with the given result: elementUnrefGuard is
\* destroyed first, then pipelineGuard; st, eg, pg, hq are the element
\* store, the two guards and m_qmlglsink at the return statement.  In main a
\* false result returns ErrorStatus.
PipelineSetupReturn(result, st, eg, pg, hq) ==
    LET st1 == IF GuardFires(eg)
               THEN ElementUnrefGuardAction(st, glsinkbin, subtitleAppsink)
               ELSE st
        st2 == IF GuardFires(pg) /\ m_playbin # Null
               THEN PipelineGuardAction(st1, m_playbin)
               ELSE st1
    IN  /\ elem' = st2.elem
        /\ parent' = st2.parent
        /\ unrefs' = st2.unrefs
        /\ unrefLog' = st2.log
        /\ m_playbin' = IF GuardFires(pg) THEN Null ELSE m_playbin
        /\ m_qmlglsink' = hq
        /\ glsinkbin' = Null
        /\ subtitleAppsink' = Null
        /\ elementUnrefGuard' = NoGuard
        /\ pipelineGuard' = NoGuard
        /\ setupResult' = IF result THEN "true" ELSE "false"
        /\ IF result
           THEN pc' = "ss_pipe" /\ ret' = ret /\ failure' = failure
           ELSE ReturnFromMain(ErrorStatus, "pipeline")

\* pipelineGuard is created; m_playbin = gst_element_factory_make("playbin").
SetupPlaybin ==
    /\ pc = "ps_begin"
    /\ UNCHANGED auxVars
    /\ hpc = "idle"
    /\ \E ok \in BOOLEAN :
         IF ok
         THEN /\ FactoryMake("playbin")
              /\ m_playbin' = "playbin"
              /\ pipelineGuard' = ScopeGuardImpl
              /\ elementUnrefGuard' = ScopeGuardImpl
              /\ pc' = NextElementStep("playbin")
              /\ UNCHANGED <<ret, failure, m_qmlglsink, glsinkbin, subtitleAppsink,
                             parent, unrefs, unrefLog, setupResult>>
         ELSE /\ PipelineSetupReturn(FALSE, Store, NoGuard, ScopeGuardImpl, Null)
              /\ UNCHANGED constructed
    /\ UNCHANGED <<alive, gst, deinitCount, inputUrl, runInFullscreen, window,
                   hasVideoItem, job, quitRequested, execEntered, closedBy>>
    /\ UNCHANGED <<widget, playState, startCalls, startLog, teardownLog>>
    /\ UNCHANGED sigVars

\* glsinkbin = gst_element_factory_make("glsinkbin")
SetupGlsinkbin ==
    /\ pc = "ps_glsinkbin"
    /\ UNCHANGED auxVars
    /\ hpc = "idle"
    /\ \E ok \in BOOLEAN :
         IF ok
         THEN /\ FactoryMake("glsinkbin")
              /\ glsinkbin' = "glsinkbin"
              /\ pc' = NextElementStep("glsinkbin")
              /\ UNCHANGED <<ret, failure, m_playbin, m_qmlglsink, subtitleAppsink,
                             pipelineGuard, elementUnrefGuard, parent, unrefs,
                             unrefLog, setupResult>>
         ELSE /\ PipelineSetupReturn(FALSE, Store, elementUnrefGuard,
                                     pipelineGuard, Null)
              /\ UNCHANGED constructed
    /\ UNCHANGED <<alive, gst, deinitCount, inputUrl, runInFullscreen, window,
                   hasVideoItem, job, quitRequested, execEntered, closedBy>>
    /\ UNCHANGED <<widget, playState, startCalls, startLog, teardownLog>>
    /\ UNCHANGED sigVars

\* subtitleAppsink = gst_element_factory_make("appsink")
SetupAppsink ==
    /\ pc = "ps_appsink"
    /\ UNCHANGED auxVars
    /\ hpc = "idle"
    /\ \E ok \in BOOLEAN :
         IF ok
         THEN /\ FactoryMake("appsink")
              /\ subtitleAppsink' = "appsink"
              /\ pc' = NextElementStep("appsink")
              /\ UNCHANGED <<ret, failure, m_playbin, m_qmlglsink, glsinkbin,
                             pipelineGuard, elementUnrefGuard, parent, unrefs,
                             unrefLog, setupResult>>
         ELSE /\ PipelineSetupReturn(FALSE, Store, elementUnrefGuard,
                                     pipelineGuard, Null)
              /\ UNCHANGED constructed
    /\ UNCHANGED <<alive, gst, deinitCount, inputUrl, runInFullscreen, window,
                   hasVideoItem, job, quitRequested, execEntered, closedBy>>
    /\ UNCHANGED <<widget, playState, startCalls, startLog, teardownLog>>
    /\ UNCHANGED sigVars

\* The store after g_object_set(glsinkbin, "sink", m_qmlglsink) and
\* g_object_set(m_playbin, ..., "video-sink", glsinkbin, "text-sink",
\* subtitleAppsink): the parents own the elements now.
Wired(st) ==
    [st EXCEPT
       !.elem = [x \in Elements |->
                   IF x \in {"qmlglsink", "glsinkbin", "appsink"}
                   THEN "adopted" ELSE st.elem[x]],
       !.parent = [x \in Elements |->
                     CASE x = "qmlglsink" -> "glsinkbin"
                       [] x \in {"glsinkbin", "appsink"} -> "playbin"
                       [] OTHER -> st.parent[x]]]

\* m_qmlglsink = gst_element_factory_make("qmlglsink"); on success the
\* elements are wired, both guards are dismissed and setup returns true.
SetupQmlglsink ==
    /\ pc = "ps_qmlglsink"
    /\ UNCHANGED auxVars
    /\ hpc = "idle"
    /\ \E ok \in BOOLEAN :
         IF ok
         THEN /\ constructed' = Append(constructed, "qmlglsink")
              /\ PipelineSetupReturn(
                    TRUE,
                    Wired([Store EXCEPT !.elem["qmlglsink"] = "held"]),
                    dismiss(elementUnrefGuard),
                    dismiss(pipelineGuard),
                    "qmlglsink")
         ELSE /\ PipelineSetupReturn(FALSE, Store, elementUnrefGuard,
                                     pipelineGuard, Null)
              /\ UNCHANGED constructed
    /\ UNCHANGED <<alive, gst, deinitCount, inputUrl, runInFullscreen, window,
                   hasVideoItem, job, quitRequested, execEntered, closedBy>>
    /\ UNCHANGED <<widget, playState, startCalls, startLog, teardownLog>>
    /\ UNCHANGED sigVars


\* ------------------------------------------------------------------------
\* Sighandler::setup
\* ------------------------------------------------------------------------

\* The descriptors pipe() hands out: read end, write end.
PipeFds == <<3, 4>>

\* Leaving Sighandler::setup with false: main returns ErrorStatus.
SighandlerSetupFails ==
    /\ shSetupResult' = "false"
    /\ ReturnFromMain(ErrorStatus, "sighandler")

\* pipe(), signalFd = m_pipeFds[1], the QSocketNotifier and its callback.
SighandlerSetupPipe ==
    /\ pc = "ss_pipe"
    /\ UNCHANGED auxVars
    /\ hpc = "idle"
    /\ \E ok \in BOOLEAN :
         IF ok
         THEN /\ m_pipeFds' = PipeFds
              /\ openFds' = openFds \cup {PipeFds[1], PipeFds[2]}
              /\ signalFd' = PipeFds[2]
              /\ m_notifier' = TRUE
              /\ sigIdx' = 1
              /\ pc' = "ss_loop"
              /\ UNCHANGED <<ret, failure, shSetupResult>>
         ELSE /\ SighandlerSetupFails
              /\ UNCHANGED <<m_pipeFds, openFds, signalFd, m_notifier, sigIdx>>
    /\ UNCHANGED <<alive, gst, deinitCount, inputUrl, runInFullscreen, window,
                   hasVideoItem, job, quitRequested, execEntered, closedBy>>
    /\ UNCHANGED <<m_oldSigactions, pipeBytes, disp, initDisp, restoreLeft,
                   restored, installed, hpc, writes>>
    /\ UNCHANGED pipeVars

\* Mutant of ShouldInstall: an ignored signal is overridden too.
ShouldInstall_Always(old) == TRUE

\* if (oldSigaction.sa_handler != SIG_IGN): the handler is installed.
ShouldInstall(old) == old # "SIG_IGN"

\* One iteration of the loop over SignalsToHandle: query the old
\* disposition, install sigHandler unless it is SIG_IGN, record the old one.
SighandlerSetupSignal ==
    /\ pc = "ss_loop"
    /\ UNCHANGED auxVars
    /\ hpc = "idle"
    /\ LET s == SignalsToHandle[sigIdx]
           old == disp[s]
       IN \E outcome \in {"ok", "queryFail", "installFail"} :
            /\ outcome = "installFail" => ShouldInstall(old)
            /\ IF outcome = "ok"
               THEN /\ disp' = IF ShouldInstall(old)
                               THEN [disp EXCEPT ![s] = "sigHandler"]
                               ELSE disp
                    /\ installed' = IF ShouldInstall(old)
                                    THEN installed \cup {s}
                                    ELSE installed
                    /\ m_oldSigactions' = [m_oldSigactions EXCEPT ![s] = old]
                    /\ IF sigIdx < Len(SignalsToHandle)
                       THEN /\ sigIdx' = sigIdx + 1
                            /\ UNCHANGED <<pc, ret, failure, shSetupResult>>
                       ELSE /\ shSetupResult' = "true"
                            /\ pc' = "show"
                            /\ UNCHANGED <<sigIdx, ret, failure>>
               ELSE /\ SighandlerSetupFails
                    /\ UNCHANGED <<disp, installed, m_oldSigactions, sigIdx>>
    /\ UNCHANGED <<alive, gst, deinitCount, inputUrl, runInFullscreen, window,
                   hasVideoItem, job, quitRequested, execEntered, closedBy>>
    /\ UNCHANGED <<signalFd, m_pipeFds, m_notifier, openFds, pipeBytes,
                   initDisp, restoreLeft, restored, hpc, writes>>
    /\ UNCHANGED pipeVars

\* ------------------------------------------------------------------------
\* main: show, find the video item, schedule the job, run the event loop
\* ------------------------------------------------------------------------

\* Mutant of ShowWindow: the pipeline is started right before the window
\* is shown.
ShowWindow_StartsPipeline ==
    /\ pc = "show"
    /\ UNCHANGED auxVars
    /\ hpc = "idle"
    /\ window' = "shown"
    /\ pc' = "find"
    /\ startCalls' = startCalls + 1
    /\ startLog' = startLog \cup {<<setupResult, window>>}
    /\ widget' = "videoItem"
    /\ playState' = "PLAYING"
    /\ UNCHANGED <<ret, failure, alive, gst, deinitCount, inputUrl,
                   runInFullscreen, hasVideoItem, job, quitRequested,
                   execEntered, closedBy>>
    /\ UNCHANGED <<m_playbin, m_qmlglsink, glsinkbin, subtitleAppsink,
                   pipelineGuard, elementUnrefGuard, elem, parent, unrefs,
                   unrefLog, constructed, setupResult, teardownLog>>
    /\ UNCHANGED sigVars

\* mainWindow->showFullScreen() or mainWindow->show()
ShowWindow ==
    /\ pc = "show"
    /\ UNCHANGED auxVars
    /\ hpc = "idle"
    /\ window' = "shown"
    /\ pc' = "find"
    /\ UNCHANGED <<ret, failure, alive, gst, deinitCount, inputUrl, runInFullscreen,
                   hasVideoItem, job, quitRequested, execEntered, closedBy>>
    /\ UNCHANGED <<pipeVars, sigVars>>

\* Mutant of FindVideoItem: the missing item is reported, main goes on.
FindVideoItem_Continues ==
    /\ pc = "find"
    /\ UNCHANGED auxVars
    /\ hpc = "idle"
    /\ pc' = "schedule"
    /\ ret' = ret
    /\ failure' = IF hasVideoItem THEN failure ELSE "videoItem"
    /\ UNCHANGED <<alive, gst, deinitCount, inputUrl, runInFullscreen, window,
                   hasVideoItem, job, quitRequested, execEntered, closedBy>>
    /\ UNCHANGED <<pipeVars, sigVars>>

\* mainWindow->findChild<QQuickItem *>("videoItem")
FindVideoItem ==
    /\ pc = "find"
    /\ UNCHANGED auxVars
    /\ hpc = "idle"
    /\ IF hasVideoItem
       THEN pc' = "schedule" /\ ret' = ret /\ failure' = failure
       ELSE ReturnFromMain(ErrorStatus, "videoItem")
    /\ UNCHANGED <<alive, gst, deinitCount, inputUrl, runInFullscreen, window,
                   hasVideoItem, job, quitRequested, execEntered, closedBy>>
    /\ UNCHANGED <<pipeVars, sigVars>>

\* mainWindow->scheduleRenderJob(new SetPlayingJob(...)); app.exec() begins.
ScheduleRenderJob ==
    /\ pc = "schedule"
    /\ UNCHANGED auxVars
    /\ hpc = "idle"
    /\ job' = "pending"
    /\ execEntered' = TRUE
    /\ pc' = "exec"
    /\ UNCHANGED <<ret, failure, alive, gst, deinitCount, inputUrl, runInFullscreen,
                   window, hasVideoItem, quitRequested, closedBy>>
    /\ UNCHANGED <<pipeVars, sigVars>>

\* The window runs a scheduled render job once, while it is shown and the
\* event loop runs.
JobRunnable == job = "pending" /\ window = "shown" /\ pc = "exec"

\* Mutant of QuitsOnFailedStart: the result of start is not looked at.
QuitsOnFailedStart_Never(started) == FALSE

\* if (!m_pipeline.start(m_qmlVideoItem)) m_application.quit();
QuitsOnFailedStart(started) == ~started

\* SetPlayingJob::run with Pipeline::start: the widget is attached, the
\* playing state is requested; a failure requests application quit.
SetPlayingJobRun ==
    /\ JobRunnable
    /\ UNCHANGED auxVars
    /\ job' = "done"
    /\ startCalls' = startCalls + 1
    /\ startLog' = startLog \cup {<<setupResult, window>>}
    /\ widget' = "videoItem"
    /\ \E ok \in BOOLEAN :
         IF ok
         THEN playState' = "PLAYING" /\ quitRequested' = quitRequested
         ELSE /\ playState' = "failure"
              /\ quitRequested' = (quitRequested \/ QuitsOnFailedStart(ok))
    /\ UNCHANGED <<pc, ret, failure, alive, gst, deinitCount, inputUrl, runInFullscreen,
                   window, hasVideoItem, execEntered, closedBy>>
    /\ UNCHANGED <<m_playbin, m_qmlglsink, glsinkbin, subtitleAppsink,
                   pipelineGuard, elementUnrefGuard, elem, parent, unrefs,
                   unrefLog, constructed, setupResult, teardownLog>>
    /\ UNCHANGED sigVars

\* window->close(): the last window closes, which ends the event loop.
WindowClose(who) ==
    /\ window' = "closed"
    /\ closedBy' = closedBy \cup {who}
    /\ quitRequested' = TRUE

\* read(fd, &c, 1) on a readable descriptor: the number of bytes read, or
\* -1 when fd is not open.
read(fd) == IF fd \in openFds THEN 1 ELSE -1

\* Mutant of ClosesOnRead: the window is closed on a read error only.
ClosesOnRead_ErrorOnly(r) == r < 0

\* The callback closes the window if (ret >= 1) and else if (ret < 0).
ClosesOnRead(r) == r >= 1 \/ r < 0

\* The callback connected to QSocketNotifier::activated, run by the event
\* loop when the read end is readable.
NotifierActivated ==
    /\ pc = "exec"
    /\ UNCHANGED auxVars
    /\ hpc = "idle"
    /\ m_notifier
    /\ pipeBytes > 0
    /\ IF signalFd < 0
       THEN UNCHANGED <<pipeBytes, window, closedBy, quitRequested>>
       ELSE LET r == read(m_pipeFds[1])
            IN /\ pipeBytes' = IF r >= 1 THEN pipeBytes - r ELSE pipeBytes
               /\ IF ClosesOnRead(r)
                  THEN WindowClose("notifier")
                  ELSE UNCHANGED <<window, closedBy, quitRequested>>
    /\ UNCHANGED <<pc, ret, failure, alive, gst, deinitCount, inputUrl, runInFullscreen,
                   hasVideoItem, job, execEntered>>
    /\ UNCHANGED <<signalFd, m_pipeFds, m_notifier, m_oldSigactions, openFds,
                   disp, initDisp, sigIdx, shSetupResult, restoreLeft, restored,
                   installed, hpc, writes>>
    /\ UNCHANGED pipeVars

\* The user closes the window while the event loop runs.
UserClosesWindow ==
    /\ pc = "exec"
    /\ UNCHANGED auxVars
    /\ hpc = "idle"
    /\ window = "shown"
    /\ WindowClose("user")
    /\ UNCHANGED <<pc, ret, failure, alive, gst, deinitCount, inputUrl, runInFullscreen,
                   hasVideoItem, job, execEntered>>
    /\ UNCHANGED <<pipeVars, sigVars>>

\* app.exec() returns after quit was requested; main returns its value.
ExecReturns ==
    /\ pc = "exec"
    /\ UNCHANGED auxVars
    /\ hpc = "idle"
    /\ quitRequested
    /\ ReturnFromMain(0, "none")
    /\ UNCHANGED <<alive, gst, deinitCount, inputUrl, runInFullscreen, window,
                   hasVideoItem, job, quitRequested, execEntered, closedBy>>
    /\ UNCHANGED <<pipeVars, sigVars>>


\* ------------------------------------------------------------------------
\* Leaving main: the objects of its scope are destroyed in reverse order
\* ------------------------------------------------------------------------

\* The object destroyed next: the one constructed last among those alive.
Top(objs) ==
    LET idx == CHOOSE i \in 1..Len(MainObjects) :
                 /\ MainObjects[i] \in objs
                 /\ \A j \in 1..Len(MainObjects) : MainObjects[j] \in objs => j <= i
    IN MainObjects[idx]

\* Mutant of NothingToTearDown: the destructor never returns early.
NothingToTearDown_Never(h) == FALSE

\* if (m_playbin == nullptr) return;
NothingToTearDown(h) == h = Null

\* Pipeline::~Pipeline, entry: nothing to do without a playbin; otherwise
\* the stopped state is requested.
PipelineDtorStop ==
    /\ pc = "unwind"
    /\ UNCHANGED auxVars
    /\ hpc = "idle"
    /\ alive # {}
    /\ Top(alive) = "pipeline"
    /\ IF NothingToTearDown(m_playbin)
       THEN /\ alive' = alive \ {"pipeline"}
            /\ UNCHANGED <<pc, playState, teardownLog>>
       ELSE /\ playState' = "NULL"
            /\ teardownLog' = Append(teardownLog, "stop")
            /\ pc' = "dp_clear"
            /\ alive' = alive
    /\ UNCHANGED <<ret, failure, gst, deinitCount, inputUrl, runInFullscreen, window,
                   hasVideoItem, job, quitRequested, execEntered, closedBy>>
    /\ UNCHANGED <<m_playbin, m_qmlglsink, glsinkbin, subtitleAppsink,
                   pipelineGuard, elementUnrefGuard, elem, parent, unrefs,
                   unrefLog, constructed, setupResult, widget, startCalls,
                   startLog>>
    /\ UNCHANGED sigVars

\* Mutant of ClearsWidget: the destructor leaves the widget attached.
ClearsWidget_Never(h) == FALSE

\* if (m_qmlglsink != nullptr): the widget reference is cleared.
ClearsWidget(h) == h # Null

\* Pipeline::~Pipeline: g_object_set(m_qmlglsink, "widget", nullptr)
PipelineDtorClearWidget ==
    /\ pc = "dp_clear"
    /\ UNCHANGED auxVars
    /\ hpc = "idle"
    /\ IF ClearsWidget(m_qmlglsink)
       THEN /\ widget' = Null
            /\ teardownLog' = Append(teardownLog, "clear")
       ELSE UNCHANGED <<widget, teardownLog>>
    /\ pc' = "dp_unref"
    /\ UNCHANGED <<ret, failure, alive, gst, deinitCount, inputUrl, runInFullscreen,
                   window, hasVideoItem, job, quitRequested, execEntered,
                   closedBy>>
    /\ UNCHANGED <<m_playbin, m_qmlglsink, glsinkbin, subtitleAppsink,
                   pipelineGuard, elementUnrefGuard, elem, parent, unrefs,
                   unrefLog, constructed, setupResult, playState, startCalls,
                   startLog>>
    /\ UNCHANGED sigVars

\* Pipeline::~Pipeline: gst_object_unref(m_playbin)
PipelineDtorUnref ==
    /\ pc = "dp_unref"
    /\ UNCHANGED auxVars
    /\ hpc = "idle"
    /\ LET st == Unref(Store, m_playbin)
       IN /\ elem' = st.elem
          /\ unrefs' = st.unrefs
          /\ unrefLog' = st.log
    /\ teardownLog' = Append(teardownLog, "release")
    /\ alive' = alive \ {"pipeline"}
    /\ pc' = "unwind"
    /\ UNCHANGED <<ret, failure, gst, deinitCount, inputUrl, runInFullscreen, window,
                   hasVideoItem, job, quitRequested, execEntered, closedBy>>
    /\ UNCHANGED <<m_playbin, m_qmlglsink, glsinkbin, subtitleAppsink,
                   pipelineGuard, elementUnrefGuard, parent, constructed,
                   setupResult, widget, playState, startCalls, startLog>>
    /\ UNCHANGED sigVars

\* ~QQmlApplicationEngine: the root window and its items are destroyed.
EngineDtor ==
    /\ pc = "unwind"
    /\ UNCHANGED auxVars
    /\ hpc = "idle"
    /\ alive # {}
    /\ Top(alive) = "qml_engine"
    /\ window' = IF window = "none" THEN window ELSE "destroyed"
    /\ alive' = alive \ {"qml_engine"}
    /\ UNCHANGED <<pc, ret, failure, gst, deinitCount, inputUrl, runInFullscreen,
                   hasVideoItem, job, quitRequested, execEntered, closedBy>>
    /\ UNCHANGED <<pipeVars, sigVars>>

\* Mutant of EntriesToRestore: the destructor restores nothing before it
\* closes the pipe.
EntriesToRestore_None == {}

\* Mutant of EntriesToRestore: only the overridden signals are visited.
EntriesToRestore_OverriddenOnly == installed

\* for (auto &item : m_oldSigactions): the keys of the map.
EntriesToRestore == {s \in Signals : m_oldSigactions[s] # Absent}

\* Sighandler::~Sighandler, entry: the loop over m_oldSigactions begins.
SighandlerDtorBegin ==
    /\ pc = "unwind"
    /\ UNCHANGED auxVars
    /\ hpc = "idle"
    /\ alive # {}
    /\ Top(alive) = "sighandler"
    /\ restoreLeft' = EntriesToRestore
    /\ pc' = "ds_restore"
    /\ UNCHANGED <<ret, failure, alive, gst, deinitCount, inputUrl, runInFullscreen,
                   window, hasVideoItem, job, quitRequested, execEntered,
                   closedBy>>
    /\ UNCHANGED <<signalFd, m_pipeFds, m_notifier, m_oldSigactions, openFds,
                   pipeBytes, disp, initDisp, sigIdx, shSetupResult, restored,
                   installed, hpc, writes>>
    /\ UNCHANGED pipeVars

\* Mutant of RestoredDisposition: the default disposition is set instead of
\* the recorded one.
RestoredDisposition_Default(s) == "SIG_DFL"

\* The disposition sigaction(signal, &oldSigaction, nullptr) puts in effect.
RestoredDisposition(s) == m_oldSigactions[s]

\* One iteration of the loop: sigaction(signal, &oldSigaction, nullptr) for
\* the entry with the smallest signal number not visited yet; after the last
\* entry the notifier is deleted.
SighandlerDtorRestore ==
    /\ pc = "ds_restore"
    /\ UNCHANGED auxVars
    /\ hpc = "idle"
    /\ IF restoreLeft # {}
       THEN LET s == CHOOSE x \in restoreLeft :
                       \A y \in restoreLeft : SigNum(x) <= SigNum(y)
            IN /\ disp' = [disp EXCEPT ![s] = RestoredDisposition(s)]
               /\ restored' = restored \cup {s}
               /\ restoreLeft' = restoreLeft \ {s}
               /\ UNCHANGED <<pc, m_notifier>>
       ELSE /\ m_notifier' = FALSE
            /\ pc' = "ds_close"
            /\ UNCHANGED <<disp, restored, restoreLeft>>
    /\ UNCHANGED <<ret, failure, alive, gst, deinitCount, inputUrl, runInFullscreen,
                   window, hasVideoItem, job, quitRequested, execEntered,
                   closedBy>>
    /\ UNCHANGED <<signalFd, m_pipeFds, m_oldSigactions, openFds, pipeBytes,
                   initDisp, sigIdx, shSetupResult, installed, hpc, writes>>
    /\ UNCHANGED pipeVars

\* close(m_pipeFds[0]) and close(m_pipeFds[1]), each unless it is -1.
SighandlerDtorClose ==
    /\ pc = "ds_close"
    /\ UNCHANGED auxVars
    /\ hpc = "idle"
    /\ openFds' = openFds \ {m_pipeFds[1], m_pipeFds[2]}
    /\ pipeBytes' = 0
    /\ pc' = "ds_reset"
    /\ UNCHANGED <<ret, failure, alive, gst, deinitCount, inputUrl, runInFullscreen,
                   window, hasVideoItem, job, quitRequested, execEntered,
                   closedBy>>
    /\ UNCHANGED <<signalFd, m_pipeFds, m_notifier, m_oldSigactions, disp,
                   initDisp, sigIdx, shSetupResult, restoreLeft, restored,
                   installed, hpc, writes>>
    /\ UNCHANGED pipeVars

\* signalFd = -1; the destructor is done.
SighandlerDtorReset ==
    /\ pc = "ds_reset"
    /\ UNCHANGED auxVars
    /\ hpc = "idle"
    /\ signalFd' = NoFd
    /\ alive' = alive \ {"sighandler"}
    /\ pc' = "unwind"
    /\ UNCHANGED <<ret, failure, gst, deinitCount, inputUrl, runInFullscreen, window,
                   hasVideoItem, job, quitRequested, execEntered, closedBy>>
    /\ UNCHANGED <<m_pipeFds, m_notifier, m_oldSigactions, openFds, pipeBytes,
                   disp, initDisp, sigIdx, shSetupResult, restoreLeft, restored,
                   installed, hpc, writes>>
    /\ UNCHANGED pipeVars

\* ~QGuiApplication
AppDtor ==
    /\ pc = "unwind"
    /\ UNCHANGED auxVars
    /\ hpc = "idle"
    /\ alive # {}
    /\ Top(alive) = "app"
    /\ alive' = alive \ {"app"}
    /\ UNCHANGED <<pc, ret, failure, gst, deinitCount, inputUrl, runInFullscreen, window,
                   hasVideoItem, job, quitRequested, execEntered, closedBy>>
    /\ UNCHANGED <<pipeVars, sigVars>>

\* The guard of main is destroyed: gst_deinit() unless dismissed.
GstDeinitGuardDtor ==
    /\ pc = "unwind"
    /\ UNCHANGED auxVars
    /\ hpc = "idle"
    /\ alive # {}
    /\ Top(alive) = "guard"
    /\ IF GuardFires(ScopeGuardImpl)
       THEN gst' = "deinit" /\ deinitCount' = deinitCount + 1
       ELSE UNCHANGED <<gst, deinitCount>>
    /\ alive' = alive \ {"guard"}
    /\ UNCHANGED <<pc, ret, failure, inputUrl, runInFullscreen, window, hasVideoItem,
                   job, quitRequested, execEntered, closedBy>>
    /\ UNCHANGED <<pipeVars, sigVars>>

\* main has returned and every object of its scope is destroyed.
MainDone ==
    /\ pc = "unwind"
    /\ UNCHANGED auxVars
    /\ hpc = "idle"
    /\ alive = {}
    /\ pc' = "done"
    /\ UNCHANGED <<ret, failure, alive, gst, deinitCount, inputUrl, runInFullscreen,
                   window, hasVideoItem, job, quitRequested, execEntered,
                   closedBy>>
    /\ UNCHANGED <<pipeVars, sigVars>>

\* ------------------------------------------------------------------------
\* Signal delivery and sigHandler
\* ------------------------------------------------------------------------

\* A managed signal whose disposition is sigHandler is delivered: the
\* handler starts in the context of the interrupted main thread.
SignalDelivered(s) ==
    /\ hpc = "idle"
    /\ UNCHANGED auxVars
    /\ pc # "done"
    /\ disp[s] = "sigHandler"
    /\ pipeBytes < MaxPending
    /\ hpc' = "running"
    /\ UNCHANGED <<signalFd, m_pipeFds, m_notifier, m_oldSigactions, openFds,
                   pipeBytes, disp, initDisp, sigIdx, shSetupResult, restoreLeft,
                   restored, installed, writes>>
    /\ UNCHANGED <<mainVars, pipeVars>>

\* Mutant of sigHandler: the handler closes the window itself.
sigHandler_ClosesWindow ==
    /\ hpc = "running"
    /\ UNCHANGED auxVars
    /\ hpc' = "idle"
    /\ window' = IF window = "shown" THEN "closed" ELSE window
    /\ closedBy' = IF window = "shown" THEN closedBy \cup {"handler"} ELSE closedBy
    /\ quitRequested' = (quitRequested \/ window = "shown")
    /\ UNCHANGED <<pc, ret, failure, alive, gst, deinitCount, inputUrl,
                   runInFullscreen, hasVideoItem, job, execEntered>>
    /\ UNCHANGED <<signalFd, m_pipeFds, m_notifier, m_oldSigactions, openFds,
                   pipeBytes, disp, initDisp, sigIdx, shSetupResult, restoreLeft,
                   restored, installed, writes>>
    /\ UNCHANGED pipeVars

\* sigHandler: if (signalFd != -1) write(signalFd, "1", 1); return.
sigHandler ==
    /\ hpc = "running"
    /\ UNCHANGED auxVars
    /\ IF signalFd # NoFd
       THEN IF signalFd \in openFds
            THEN /\ pipeBytes' = pipeBytes + 1
                 /\ writes' = writes \cup {IF signalFd = m_pipeFds[2]
                                           THEN "pipe" ELSE "other"}
            ELSE /\ writes' = writes \cup {"closed"}
                 /\ pipeBytes' = pipeBytes
       ELSE UNCHANGED <<pipeBytes, writes>>
    /\ hpc' = "idle"
    /\ UNCHANGED <<signalFd, m_pipeFds, m_notifier, m_oldSigactions, openFds,
                   disp, initDisp, sigIdx, shSetupResult, restoreLeft, restored,
                   installed>>
    /\ UNCHANGED <<mainVars, pipeVars>>

\* ------------------------------------------------------------------------
\* Specification
\* ------------------------------------------------------------------------

Next ==
    \/ GstInit
    \/ Construct
    \/ ParseCmdline
    \/ NormalizeInput
    \/ DummySink
    \/ LoadQml
    \/ SetupPlaybin
    \/ SetupGlsinkbin
    \/ SetupAppsink
    \/ SetupQmlglsink
    \/ SighandlerSetupPipe
    \/ SighandlerSetupSignal
    \/ ShowWindow
    \/ FindVideoItem
    \/ ScheduleRenderJob
    \/ ExecReturns
    \/ PipelineDtorStop
    \/ PipelineDtorClearWidget
    \/ PipelineDtorUnref
    \/ EngineDtor
    \/ SighandlerDtorBegin
    \/ SighandlerDtorRestore
    \/ SighandlerDtorClose
    \/ SighandlerDtorReset
    \/ AppDtor
    \/ GstDeinitGuardDtor
    \/ MainDone
    \/ NotifierActivated
    \/ UserClosesWindow
    \/ SetPlayingJobRun
    \/ \E s \in Signals : SignalDelivered(s)
    \/ sigHandler

Spec == Init /\ [][Next]_vars


\* The fairness the scheduling gives: a started signal handler runs to its
\* end, the event loop dispatches a readable notifier and returns once quit
\* was requested, and the main thread goes on outside the event loop.
FairSpec ==
    /\ Spec
    /\ WF_vars(sigHandler)
    /\ WF_vars(NotifierActivated)
    /\ WF_vars(ExecReturns)

\* The steps of main after app.exec() has returned or main has returned
\* early: the destructors of main's objects in reverse order.
Unwind ==
    \/ PipelineDtorStop
    \/ PipelineDtorClearWidget
    \/ PipelineDtorUnref
    \/ EngineDtor
    \/ SighandlerDtorBegin
    \/ SighandlerDtorRestore
    \/ SighandlerDtorClose
    \/ SighandlerDtorReset
    \/ AppDtor
    \/ GstDeinitGuardDtor
    \/ MainDone

\* The main thread goes on: a handler that has started returns, the event
\* loop returns once quit is requested although signals may keep
\* interrupting it, and the destructors run.
QuitFairSpec ==
    /\ Spec
    /\ WF_vars(sigHandler)
    /\ SF_vars(ExecReturns)
    /\ WF_vars(Unwind)

\* ------------------------------------------------------------------------
\* Properties
\* ------------------------------------------------------------------------

\* Sighandler::~Sighandler has run to its end.
SighandlerTornDown ==
    /\ pc \in {"unwind", "done"}
    /\ gst # "uninit"
    /\ "sighandler" \notin alive

\* C1: Pipeline::start is invoked at most once, each invocation happens
\* after Pipeline::setup returned true and after the root window was shown,
\* and on a run in which a setup step failed it is never invoked.
C1_StartOnceAfterSetupAndShow ==
    /\ startCalls <= 1
    /\ \A e \in startLog : e[1] = "true" /\ e[2] \in {"shown", "closed"}
    /\ startCalls > 0 => job = "done"
    /\ (failure # "none" \/ setupResult = "false" \/ shSetupResult = "false")
          => startCalls = 0

\* Witness of C1: start ran, once, in a run that came to its end.
C1_Witness == pc = "done" /\ startCalls = 1 /\ playState = "NULL"

\* C2: whenever the QML engine and with it the root window are destroyed,
\* the widget reference of the qmlglsink is cleared.
C2_WidgetClearedBeforeUiDestroyed ==
    /\ window = "destroyed" => widget = Null
    /\ ("qml_engine" \notin alive /\ pc \in {"unwind", "done"}) => widget = Null

\* Witness of C2: the window is destroyed after start had attached the video
\* item and the destructor of the pipeline had run all its steps.
C2_Witness ==
    /\ window = "destroyed"
    /\ startCalls = 1
    /\ teardownLog = <<"stop", "clear", "release">>

\* C3: a step of the signal handler changes nothing but the pipe (one byte
\* at most), and the window is closed only by a step taken on the event loop
\* while no signal handler runs; what closes it for a signal is the notifier
\* callback, which drains one byte.
C3_HandlerOnlyWrites ==
    [][ /\ (hpc = "running" /\ hpc' = "idle")
            => /\ UNCHANGED <<mainVars, pipeVars>>
               /\ UNCHANGED <<signalFd, m_pipeFds, m_notifier, m_oldSigactions,
                              openFds, disp>>
               /\ pipeBytes' \in {pipeBytes, pipeBytes + 1}
        /\ (closedBy' # closedBy \/ (window' = "closed" /\ window # "closed"))
            => /\ hpc = "idle" /\ hpc' = "idle"
               /\ pc = "exec"
               /\ closedBy' \subseteq {"notifier", "user"}
               /\ ("notifier" \in closedBy' \ closedBy
                     => m_notifier /\ pipeBytes' = pipeBytes - 1)
      ]_vars

\* Witness of C3: a signal was handled, its handler wrote to the pipe, and
\* the notifier callback closed the window.
C3_Witness ==
    /\ writes = {"pipe"}
    /\ closedBy = {"notifier"}
    /\ window = "closed"

\* sigHandler is the disposition of some managed signal.
HandlerCanRun == hpc = "running" \/ \E s \in Signals : disp[s] = "sigHandler"

C5_SignalLeadsToClose ==
    (pc = "exec" /\ shSetupResult = "true" /\ (hpc = "running" \/ pipeBytes > 0))
        ~> ("notifier" \in closedBy \/ pc # "exec")

\* Witness of C5: the notifier callback has drained the only byte and
\* requested the close, and the event loop has not returned yet.
C5_Witness ==
    /\ pc = "exec"
    /\ "notifier" \in closedBy
    /\ pipeBytes = 0
    /\ quitRequested

\* C6: after teardown every managed signal that was not ignored before
\* setup has the disposition it had before setup, however far setup came.
C6_DispositionsRestored ==
    SighandlerTornDown =>
        \A s \in Signals : initDisp[s] # "SIG_IGN" => disp[s] = initDisp[s]

\* Witness of C6: setup failed partway after overriding a disposition that
\* was a handler of its own, and teardown is done.
C6_Witness ==
    /\ SighandlerTornDown
    /\ shSetupResult = "false"
    /\ \E s \in installed : initDisp[s] = "other"
    /\ \E s \in Signals : s \notin installed /\ initDisp[s] # "SIG_IGN"

\* C7: a managed signal that is ignored before setup is ignored in every
\* state, and sigHandler is never installed for it.
C7_IgnoredStaysIgnored ==
    \A s \in Signals :
        initDisp[s] = "SIG_IGN" => disp[s] = "SIG_IGN" /\ s \notin installed

\* Witness of C7: setup succeeded with an ignored signal next to an
\* overridden one, and teardown is done.
C7_Witness ==
    /\ SighandlerTornDown
    /\ shSetupResult = "true"
    /\ \E s \in Signals : initDisp[s] = "SIG_IGN" /\ s \in restored
    /\ installed # {}

\* C8: when Pipeline::setup has returned false, no element is constructed and
\* still held by the controller: each one constructed is released.
C8_NoLeakOnFailedSetup ==
    setupResult = "false" =>
        /\ \A e \in Elements : elem[e] \in {"none", "freed"}
        /\ \A i \in 1..Len(constructed) : elem[constructed[i]] = "freed"
        /\ m_playbin = Null

\* Witness of C8: setup failed at the qmlglsink, after three elements were
\* constructed.
C8_Witness ==
    /\ setupResult = "false"
    /\ constructed = <<"playbin", "glsinkbin", "appsink">>
    /\ elem["appsink"] = "freed"

\* C9: the controller releases no element more than once, releases an
\* element only while it holds it (never one handed to a parent, never one
\* freed), and after a failed setup the destructor releases nothing.
C9_NoDoubleRelease ==
    /\ \A e \in Elements : unrefs[e] <= 1
    /\ \A u \in unrefLog : u[2] = "held"
    /\ \A e \in Elements \ {"playbin"} : elem[e] = "adopted" => unrefs[e] = 0
    /\ setupResult = "false" => teardownLog = << >>

\* Witness of C9: after a successful setup the destructor released the
\* playbin, which freed the elements it owned.
C9_Witness ==
    /\ setupResult = "true"
    /\ "pipeline" \notin alive
    /\ unrefs = [e \in Elements |-> IF e = "playbin" THEN 1 ELSE 0]
    /\ \A e \in Elements : elem[e] = "freed"

FreshObject(j) ==
    /\ guards[j].status = "none"
    /\ \A k \in GuardObjects : k < j => guards[k].status # "none"

\* explicit ScopeGuardImpl(Func &&func)
GuardConstruct ==
    /\ guards[1].status = "none"
    /\ guards' = [guards EXCEPT ![1] =
                    [NoObject EXCEPT !.status = "alive", !.m_func = "action",
                                     !.g = ScopeGuardImpl, !.born = "ctor"]]
    /\ UNCHANGED <<mainVars, pipeVars, sigVars, inputArg, sub, ndebug, aborted>>

\* ScopeGuardImpl(ScopeGuardImpl &&other): object j is constructed from
\* object i.  A moved-from std::function is left in an unspecified state:
\* it may still hold the action or be empty.
GuardMove(i, j) ==
    /\ guards[i].status = "alive"
    /\ FreshObject(j)
    /\ \E left \in {"empty", "action"} :
          guards' = [guards EXCEPT
                       ![j] = [NoObject EXCEPT
                                 !.status = "alive",
                                 !.m_func = guards[i].m_func,
                                 !.g = MoveConstructed(guards[i].g),
                                 !.born = "move",
                                 !.otherFlag = guards[i].g.m_dismissed],
                       ![i] = [guards[i] EXCEPT
                                 !.g = MovedFrom(guards[i].g),
                                 !.m_func = IF guards[i].m_func = "action"
                                              THEN left ELSE "empty",
                                 !.movedFrom = TRUE]]
    /\ UNCHANGED <<mainVars, pipeVars, sigVars, inputArg, sub, ndebug, aborted>>

\* dismiss() on object i
GuardDismiss(i) ==
    /\ guards[i].status = "alive"
    /\ guards[i].dismissCalls < MaxDismissCalls
    /\ guards' = [guards EXCEPT ![i] =
                    [guards[i] EXCEPT !.g = dismiss(guards[i].g),
                                      !.dismissCalls = @ + 1]]
    /\ UNCHANGED <<mainVars, pipeVars, sigVars, inputArg, sub, ndebug, aborted>>

\* ~ScopeGuardImpl() of object i: m_func() is called unless dismissed;
\* calling an empty std::function throws, and the throw is swallowed.
GuardDestroy(i) ==
    /\ guards[i].status = "alive"
    /\ guards' = [guards EXCEPT ![i] =
                    [guards[i] EXCEPT
                       !.status = "destroyed",
                       !.ran = IF GuardFires(guards[i].g)
                                  /\ guards[i].m_func = "action"
                                 THEN @ + 1 ELSE @,
                       !.emptyCalls = IF GuardFires(guards[i].g)
                                         /\ guards[i].m_func = "empty"
                                        THEN @ + 1 ELSE @]]
    /\ UNCHANGED <<mainVars, pipeVars, sigVars, inputArg, sub, ndebug, aborted>>

GuardInit ==
    /\ MainInit
    /\ initDisp = [s \in Signals |-> "SIG_DFL"]
    /\ AuxInit

GuardNext ==
    \/ GuardConstruct
    \/ \E i, j \in GuardObjects : GuardMove(i, j)
    \/ \E i \in GuardObjects : GuardDismiss(i)
    \/ \E i \in GuardObjects : GuardDestroy(i)

GuardSpec == GuardInit /\ [][GuardNext]_vars

RECURSIVE ActionRuns(_)
\* How often the action ran, over the objects 1..n.
ActionRuns(n) == IF n = 0 THEN 0 ELSE guards[n].ran + ActionRuns(n - 1)

\* C11: a guard made with an action and kept in place (not moved away)
\* runs the action exactly once when it is destroyed if dismiss() was never
\* called on it, and never runs it if dismiss() was called once or more;
\* no guard runs the action while it is alive or after a dismiss().
C11_ActionOnceUnlessDismissed ==
    \A i \in GuardObjects :
        /\ guards[i].status # "destroyed" => guards[i].ran = 0
        /\ guards[i].dismissCalls > 0 => guards[i].ran = 0
        /\ (guards[i].born = "ctor" /\ ~guards[i].movedFrom
              /\ guards[i].status = "destroyed")
             => guards[i].ran = (IF guards[i].dismissCalls = 0 THEN 1 ELSE 0)

C11_Witness ==
    /\ guards[1].born = "ctor"
    /\ ~guards[1].movedFrom
    /\ guards[1].status = "destroyed"
    /\ guards[1].dismissCalls = 0
    /\ guards[1].ran = 1

\* C19: a moved-from guard never runs the action when destroyed, a
\* move-constructed guard starts with the dismissed flag of the guard it was
\* made from, and over all moves, dismissals and destructions the action
\* runs at most once.
C19_MoveTransfersCleanup ==
    /\ \A i \in GuardObjects :
          /\ guards[i].movedFrom
               => guards[i].ran = 0 /\ guards[i].emptyCalls = 0
          /\ (guards[i].born = "move" /\ guards[i].dismissCalls = 0
                /\ ~guards[i].movedFrom)
               => guards[i].g.m_dismissed = guards[i].otherFlag
    /\ ActionRuns(MaxGuardObjects) <= 1

C19_Witness ==
    /\ guards[1].movedFrom
    /\ guards[1].status = "destroyed"
    /\ guards[2].born = "move"
    /\ ~guards[2].otherFlag
    /\ guards[2].status = "destroyed"
    /\ guards[2].ran = 1

\* ------------------------------------------------------------------------
\* Claims about main's start-up and teardown
\* ------------------------------------------------------------------------

\* The input was given on the command line and main is past its validation.
InputNormalized == inputArg # "" /\ pc # "normalize"

\* C14: once main is past the input validation, a valid URI is the URL
\* given to the pipeline unchanged, a file name is replaced by its file URI
\* and is no cause of failure, and an input that is neither makes main
\* return non-zero with the QML engine never constructed and no window
\* loaded or shown.
C14_InputNormalization ==
    InputNormalized =>
        /\ inputArg = "http://example.com/v.mp4"
             => inputUrl = "http://example.com/v.mp4" /\ failure # "input"
        /\ inputArg = "/tmp/video.mp4"
             => inputUrl = "file:///tmp/video.mp4" /\ failure # "input"
        /\ inputArg = "\\bad"
             => /\ failure = "input"
                /\ ~execEntered
                /\ ret # << >> /\ ret[1] # 0
                /\ window = "none"
                /\ "qml_engine" \notin alive
                /\ constructed = << >>

C14_Witness ==
    /\ inputArg = "/tmp/video.mp4"
    /\ inputUrl = "file:///tmp/video.mp4"
    /\ pc = "exec"
    /\ window = "shown"
    /\ playState = "PLAYING"

PipelineDestroyed ==
    /\ setupResult # "none"
    /\ "pipeline" \notin alive
    /\ pc \in {"unwind", "done"}

\* The steps of ~Pipeline, in the order of the claim.
TeardownSteps == <<"stop", "clear", "release">>

\* C16: the steps the Pipeline destructor has taken are always the first
\* steps of: stop, clear the widget, release the playbin; after a
\* successful setup the finished destructor has taken all three, and when
\* setup did not succeed (playbin handle null) it takes none and requests
\* no state.
C16_TeardownOrder ==
    /\ Len(teardownLog) <= Len(TeardownSteps)
    /\ teardownLog = SubSeq(TeardownSteps, 1, Len(teardownLog))
    /\ setupResult # "true" =>
          /\ teardownLog = << >>
          /\ playState = "none"
          /\ "pipeline" \notin alive => m_playbin = Null
    /\ (PipelineDestroyed /\ setupResult = "true") =>
          teardownLog = TeardownSteps

C16_Witness ==
    /\ PipelineDestroyed
    /\ setupResult = "true"
    /\ teardownLog = TeardownSteps
    /\ playState = "NULL"
    /\ widget = Null

\* The signals that have an entry in m_oldSigactions.
Recorded == {s \in Signals : m_oldSigactions[s] # Absent}

\* C17 as stated: the signals written at teardown are exactly those on which
\* sigHandler was installed, and a signal that was ignored is neither
\* recorded nor written at teardown.
C17_RestoresExactlyOverridden ==
    /\ \A s \in Signals :
          initDisp[s] = "SIG_IGN" => s \notin Recorded /\ s \notin restored
    /\ SighandlerTornDown => restored = installed

\* C17, amended: the bridge records the disposition of every signal it got
\* past in setup, overridden or left ignored, and teardown writes exactly
\* the recorded ones: the overridden signals and the ignored signals setup
\* got past, the latter written with the ignore they already had.
C17_RestoresEveryRecorded ==
    /\ installed \subseteq Recorded
    /\ \A s \in Recorded : m_oldSigactions[s] = initDisp[s]
    /\ \A s \in Recorded \ installed : initDisp[s] = "SIG_IGN"
    /\ restored \subseteq Recorded
    /\ \A s \in restored \ installed : disp[s] = "SIG_IGN"
    /\ SighandlerTornDown => restored = Recorded

C17_Witness ==
    /\ SighandlerTornDown
    /\ restored = Recorded
    /\ installed # {}
    /\ restored \ installed # {}
    /\ Recorded # Signals

\* The order in which a successful Pipeline::setup constructs its elements.
ConstructionOrder == <<"playbin", "glsinkbin", "appsink", "qmlglsink">>

\* C18 as stated: the elements are constructed in the order playbin,
\* glsinkbin, qmlglsink, appsink.
C18_OrderSinkBeforeSubtitleSink ==
    /\ Len(constructed) <= 4
    /\ constructed =
         SubSeq(<<"playbin", "glsinkbin", "qmlglsink", "appsink">>,
                1, Len(constructed))

\* C18, amended: the elements are constructed in the order playbin,
\* glsinkbin, appsink, qmlglsink; a successful setup constructed all four,
\* and a failed one constructed only the elements before the failed step.
C18_ConstructionOrder ==
    /\ Len(constructed) <= Len(ConstructionOrder)
    /\ constructed = SubSeq(ConstructionOrder, 1, Len(constructed))
    /\ setupResult = "true" => constructed = ConstructionOrder
    /\ setupResult = "false" => Len(constructed) < Len(ConstructionOrder)
    /\ \A e \in Elements :
          elem[e] # "none" => \E i \in 1..Len(constructed) : constructed[i] = e

C18_Witness ==
    /\ setupResult = "false"
    /\ constructed = <<"playbin", "glsinkbin", "appsink">>

\* main is over after the event loop returned and the normal teardown ran.
OrderlyExit ==
    /\ pc = "done"
    /\ ret = <<0>>
    /\ alive = {}
    /\ teardownLog = TeardownSteps
    /\ playState = "NULL"
    /\ disp = initDisp
    /\ signalFd = NoFd
    /\ deinitCount = 1
    /\ ~aborted

\* C13: when the deferred Pipeline::start has failed, application quit is
\* requested and the process is not aborted, and from there the event loop
\* returns and the normal teardown runs to its end.
C13_FailedStartLeadsToOrderlyExit ==
    /\ [](playState = "failure" => quitRequested /\ ~aborted)
    /\ (playState = "failure") ~> OrderlyExit

C13_Witness ==
    /\ playState = "failure"
    /\ pc = "unwind"
    /\ ret = <<0>>
    /\ "pipeline" \in alive

\* ------------------------------------------------------------------------
\* The Pipeline object on its own: setup, start and the destructor called
\* in every order a caller can call them
\* ------------------------------------------------------------------------

\* The state of main right after "Pipeline pipeline;", in a build with
\* asserts (ndebug false) or without them.
ApiInit ==
    /\ pc = "ps_begin"
    /\ ret = << >>
    /\ failure = "none"
    /\ alive = {"guard", "app", "sighandler", "qml_engine", "pipeline"}
    /\ gst = "init"
    /\ deinitCount = 0
    /\ inputUrl = "http://example.com/v.mp4"
    /\ runInFullscreen = FALSE
    /\ window = "loaded"
    /\ hasVideoItem = TRUE
    /\ job = "none"
    /\ quitRequested = FALSE
    /\ execEntered = FALSE
    /\ closedBy = {}
    /\ m_playbin = Null
    /\ m_qmlglsink = Null
    /\ glsinkbin = Null
    /\ subtitleAppsink = Null
    /\ pipelineGuard = NoGuard
    /\ elementUnrefGuard = NoGuard
    /\ elem = [e \in Elements |-> "none"]
    /\ parent = [e \in Elements |-> Null]
    /\ unrefs = [e \in Elements |-> 0]
    /\ unrefLog = {}
    /\ constructed = <<>>
    /\ setupResult = "none"
    /\ widget = Null
    /\ playState = "none"
    /\ startCalls = 0
    /\ startLog = {}
    /\ teardownLog = <<>>
    /\ signalFd = NoFd
    /\ m_pipeFds = <<NoFd, NoFd>>
    /\ m_notifier = FALSE
    /\ m_oldSigactions = [s \in Signals |-> Absent]
    /\ openFds = {}
    /\ pipeBytes = 0
    /\ initDisp = [s \in Signals |-> "SIG_DFL"]
    /\ disp = initDisp
    /\ sigIdx = 1
    /\ shSetupResult = "none"
    /\ restoreLeft = {}
    /\ restored = {}
    /\ installed = {}
    /\ hpc = "idle"
    /\ writes = {}
    /\ inputArg = "http://example.com/v.mp4"
    /\ guards = [i \in GuardObjects |-> NoObject]
    /\ sub = SubIdle
    /\ ndebug \in BOOLEAN
    /\ aborted = FALSE

\* assert(m_playbin != nullptr); assert(m_qmlglsink != nullptr);
\* the asserts are compiled out with NDEBUG.
StartAsserts(pb, sink) == ndebug \/ (pb # Null /\ sink # Null)

\* Mutant of AttachesWidget: the property is set whatever the handle is.
AttachesWidget_Always(h) == TRUE

\* g_object_set(m_qmlglsink, "widget", ...): GLib rejects a null object.
AttachesWidget(h) == h # Null

\* gst_element_set_state(m_playbin, GST_STATE_PLAYING): the outcomes.  A
\* null element is rejected with GST_STATE_CHANGE_FAILURE and no state is
\* requested.
SetStateOutcomes(pb) == IF pb # Null THEN {"PLAYING", "failure"} ELSE {"rejected"}

\* Pipeline::start called directly, before setup, after setup has returned,
\* or while main unwinds with the Pipeline object still there.
StartCalled ==
    /\ pc \in {"ps_begin", "ss_pipe", "unwind"}
    /\ "pipeline" \in alive
    /\ hpc = "idle"
    /\ startCalls < MaxStartCalls
    /\ startCalls' = startCalls + 1
    /\ startLog' = startLog \cup {<<setupResult, window>>}
    /\ IF ~StartAsserts(m_playbin, m_qmlglsink)
       THEN /\ aborted' = TRUE
            /\ pc' = "aborted"
            /\ UNCHANGED <<widget, playState>>
       ELSE /\ widget' = IF AttachesWidget(m_qmlglsink) THEN "videoItem" ELSE widget
            /\ \E r \in SetStateOutcomes(m_playbin) :
                 playState' = IF r = "rejected" THEN playState ELSE r
            /\ UNCHANGED <<aborted, pc>>
    /\ UNCHANGED <<inputArg, guards, sub, ndebug>>
    /\ UNCHANGED <<ret, failure, alive, gst, deinitCount, inputUrl, runInFullscreen,
                   window, hasVideoItem, job, quitRequested, execEntered,
                   closedBy>>
    /\ UNCHANGED <<m_playbin, m_qmlglsink, glsinkbin, subtitleAppsink,
                   pipelineGuard, elementUnrefGuard, elem, parent, unrefs,
                   unrefLog, constructed, setupResult, teardownLog>>
    /\ UNCHANGED sigVars

\* The scope of the Pipeline object ends without a failure having ended it.
PipelineScopeExit ==
    /\ pc \in {"ps_begin", "ss_pipe"}
    /\ hpc = "idle"
    /\ pc' = "unwind"
    /\ UNCHANGED <<ret, failure, alive, gst, deinitCount, inputUrl, runInFullscreen,
                   window, hasVideoItem, job, quitRequested, execEntered,
                   closedBy>>
    /\ UNCHANGED <<pipeVars, sigVars, auxVars>>

ApiNext ==
    \/ SetupPlaybin
    \/ SetupGlsinkbin
    \/ SetupAppsink
    \/ SetupQmlglsink
    \/ StartCalled
    \/ PipelineScopeExit
    \/ PipelineDtorStop
    \/ PipelineDtorClearWidget
    \/ PipelineDtorUnref

ApiSpec == ApiInit /\ [][ApiNext]_vars

\* C12: as long as Pipeline::setup has not returned true (it was never
\* called, or it returned false, and then both handles are null), no call
\* of Pipeline::start has attached a widget or requested a state, in a
\* build with asserts and in one without.
C12_StartBeforeSetupRejected ==
    /\ setupResult \in {"none", "false"} /\ pc \in {"ps_begin", "unwind", "aborted"}
         => m_playbin = Null /\ m_qmlglsink = Null
    /\ setupResult # "true" => widget = Null /\ playState = "none"
    /\ aborted => ~ndebug /\ setupResult # "true"

C12_Witness ==
    /\ ndebug
    /\ setupResult = "false"
    /\ <<"false", "loaded">> \in startLog
    /\ <<"none", "loaded">> \in startLog
    /\ widget = Null
    /\ playState = "none"
    /\ ~aborted

\* ------------------------------------------------------------------------
\* Pipeline::staticOnNewSubtitle on its own: the callback of the subtitle
\* appsink, run once for every delivered sample
\* ------------------------------------------------------------------------

\* Subtitle texts carried by the samples.
Payloads == {"Hello", "World"}

\* The appsink has a new sample and calls the callback.
SubtitleDelivered ==
    /\ sub.pc = "idle"
    /\ sub.delivered < MaxSamples
    /\ \E text \in Payloads :
         sub' = [sub EXCEPT !.pc = "pull", !.delivered = @ + 1,
                            !.payload = text]
    /\ UNCHANGED <<mainVars, pipeVars, sigVars, inputArg, guards, ndebug, aborted>>

\* subtitleSample = gst_app_sink_pull_sample(subtitleAppsink): the callback
\* now owns a reference to the sample; gst_sample_get_buffer borrows the
\* buffer.
SubPullSample ==
    /\ sub.pc = "pull"
    /\ sub' = [sub EXCEPT !.pc = "map", !.subtitleSample = "sample",
                          !.pulled = @ + 1]
    /\ UNCHANGED <<mainVars, pipeVars, sigVars, inputArg, guards, ndebug, aborted>>

\* gst_buffer_map(subtitleBuffer, &mapInfo, GST_MAP_READ), which may fail
\* (the result is not looked at), and the guard that unmaps is made.
SubMapBuffer ==
    /\ sub.pc = "map"
    /\ \E ok \in BOOLEAN :
         sub' = [sub EXCEPT !.pc = "set",
                            !.mapped = IF ok THEN @ + 1 ELSE @,
                            !.guard = ScopeGuardImpl]
    /\ UNCHANGED <<mainVars, pipeVars, sigVars, inputArg, guards, ndebug, aborted>>

\* self->m_qmlSubtitleItem->setProperty("subtitle", subtitle)
SubSetProperty ==
    /\ sub.pc = "set"
    /\ sub' = [sub EXCEPT !.pc = "return",
                          !.subtitle = IF sub.mapped > sub.unmapped
                                         THEN sub.payload ELSE ""]
    /\ UNCHANGED <<mainVars, pipeVars, sigVars, inputArg, guards, ndebug, aborted>>

\* return GST_FLOW_OK: the locals go out of scope.  The guard calls
\* gst_buffer_unmap, which releases the mapping if there is one; the
\* sample pointer is a plain pointer and nothing unrefs the sample.
SubReturn ==
    /\ sub.pc = "return"
    /\ sub' = [sub EXCEPT !.pc = "idle",
                          !.unmapped = IF GuardFires(sub.guard)
                                          /\ sub.mapped > sub.unmapped
                                         THEN @ + 1 ELSE @,
                          !.guard = NoGuard,
                          !.subtitleSample = Null]
    /\ UNCHANGED <<mainVars, pipeVars, sigVars, inputArg, guards, ndebug, aborted>>

SubInit ==
    /\ MainInit
    /\ initDisp = [s \in Signals |-> "SIG_DFL"]
    /\ AuxInit

SubNext ==
    \/ SubtitleDelivered
    \/ SubPullSample
    \/ SubMapBuffer
    \/ SubSetProperty
    \/ SubReturn

SubtitleSpec == SubInit /\ [][SubNext]_vars

\* C20: whenever the callback is not running, every sample it pulled has
\* been released once and every mapping it made has been unmapped once.
C20_CallbackReleasesAll ==
    sub.pc = "idle" =>
        /\ sub.sampleUnrefs = sub.pulled
        /\ sub.unmapped = sub.mapped

=============================================================================
